---- MODULE Spec2Model ----
(***************************************************************************)
(* Change-impact analysis over two snapshots of a C source tree            *)
(* (src/main.py): get_changed_files, compare_ast_nodes,                    *)
(* get_modified_functions, build_call_graph and find_ancestors.            *)
(*                                                                         *)
(* Each operation has its own specification over the shared variables:     *)
(*   SpecCompare   compare_ast_nodes on a pair of nodes                    *)
(*   SpecModified  get_modified_functions on a pair of translation units   *)
(*   SpecCalls     build_call_graph on one file with arbitrary bodies      *)
(*   SpecBuild     build_call_graph on a list of files, some unparsable    *)
(*   SpecAncestors find_ancestors, one loop step per action                *)
(*   FairAncestors SpecAncestors with the interpreter always stepping      *)
(*   SpecDiff      get_changed_files on two directory roots                *)
(***************************************************************************)
EXTENDS Integers, Sequences, FiniteSets, TLC

VARIABLES
    pc,                 \* which operation runs and where it stands
    node1, node2,       \* compare_ast_nodes: its two arguments
    cmp_result,         \* compare_ast_nodes: the value returned
    original_ast,       \* get_modified_functions: first argument
    modified_ast,       \* get_modified_functions: second argument
    modified_functions, \* get_modified_functions: the list returned
    files,              \* build_call_graph: the list of files
    file_idx,           \* build_call_graph: position of the for loop over files
    call_graph,         \* build_call_graph's dict; find_ancestors' first argument
    functions,          \* find_ancestors: the seed functions
    affected,           \* find_ancestors: set affected
    visited,            \* find_ancestors: set visited
    stack,              \* find_ancestors: the work list
    func,               \* find_ancestors: the function popped last
    callers_left,       \* find_ancestors: callers the inner for loop has yet to scan
    original_path,      \* get_changed_files: first root
    modified_path,      \* get_changed_files: second root
    new_files,          \* get_changed_files: first list returned
    deleted_files,      \* get_changed_files: second list returned
    changed_files,      \* get_changed_files: third list returned
    disk                \* the file system: what lies at each root path

vars == <<pc, node1, node2, cmp_result, original_ast, modified_ast,
          modified_functions, files, file_idx, call_graph, functions, affected,
          visited, stack, func, callers_left, original_path, modified_path,
          new_files, deleted_files, changed_files, disk>>

cmpVars  == <<node1, node2, cmp_result>>
modVars  == <<original_ast, modified_ast, modified_functions>>
cgVars   == <<files, file_idx>>
ancVars  == <<functions, affected, visited, stack, func, callers_left>>
diffVars == <<original_path, modified_path, new_files, deleted_files, changed_files, disk>>

\* The value of a variable its specification does not use.
Idle == "idle"

(***************************************************************************)
(* Bounds of the model.                                                    *)
(***************************************************************************)
MaxStmts == 3      \* statements in a function body
MaxExt == 2        \* top-level declarations in a translation unit
MaxFiles == 2      \* files handed to build_call_graph
MaxEdges == 3      \* call edges (callee entries) in find_ancestors' graph
MaxDepth == 3      \* path components below a root directory

Min(a, b) == IF a < b THEN a ELSE b

SeqsUpTo(S, n) == UNION {[1..k -> S] : k \in 0..n}

RECURSIVE Flatten(_)
Flatten(ss) == IF ss = << >> THEN << >> ELSE Head(ss) \o Flatten(Tail(ss))

Range(s) == {s[i] : i \in 1..Len(s)}

(***************************************************************************)
(* pycparser's c_ast as the code uses it: a node has a class (kind), the   *)
(* attributes its class names in attr_names, a coordinate (coord, which    *)
(* attr_names never lists) and children(), an ordered sequence of          *)
(* (slot name, node) pairs that leaves out the slots holding None.         *)
(***************************************************************************)
NodeKinds == {"FileAST", "FuncDef", "Decl", "FuncDecl", "Compound", "FuncCall",
              "ExprList", "ID", "Constant", "UnaryOp"}

Node(kind, attrs, coord, children) ==
    [kind |-> kind, attrs |-> attrs, coord |-> coord, children |-> children]

\* A value that is no c_ast.Node: None, or a str.
Scalar(type, value) == Node(type, << <<"value", value>> >>, 0, << >>)
None == Scalar("NoneType", "None")

\* "exprs[%d]" % i: the slot name of the i-th element of a list-valued slot.
ListSlot(name, i) == name \o "[" \o ToString(i) \o "]"

ListChildren(name, nodes) ==
    [i \in 1..Len(nodes) |-> <<ListSlot(name, i - 1), nodes[i]>>]

\* children() of a node whose slots are, in order, the (name, value) pairs of
\* `slots`: a slot holding None is left out.
OptChildren(slots) ==
    LET keep == [i \in 1..Len(slots) |->
                    IF slots[i][2] = None THEN << >> ELSE <<slots[i]>>]
    IN  Flatten(keep)

ID(name, coord) == Node("ID", << <<"name", name>> >>, coord, << >>)
Constant(type, value, coord) ==
    Node("Constant", << <<"type", type>>, <<"value", value>> >>, coord, << >>)
UnaryOp(op, expr, coord) ==
    Node("UnaryOp", << <<"op", op>> >>, coord, << <<"expr", expr>> >>)
ExprList(exprs, coord) == Node("ExprList", << >>, coord, ListChildren("exprs", exprs))
FuncCall(name, args, coord) ==
    Node("FuncCall", << >>, coord, OptChildren(<< <<"name", name>>, <<"args", args>> >>))
Compound(block_items, coord) ==
    Node("Compound", << >>, coord, ListChildren("block_items", block_items))
FuncDecl(coord) == Node("FuncDecl", << >>, coord, << >>)
Decl(name, type, init, bitsize, coord) ==
    Node("Decl", << <<"name", name>> >>, coord,
         OptChildren(<< <<"type", type>>, <<"init", init>>, <<"bitsize", bitsize>> >>))
FuncDef(decl, body, coord) ==
    Node("FuncDef", << >>, coord, << <<"decl", decl>>, <<"body", body>> >>)
FileAST(ext) == Node("FileAST", << >>, 0, ListChildren("ext", ext))

IsNode(n) == n.kind \in NodeKinds                 \* isinstance(n, c_ast.Node)
attr_names(n) == [i \in 1..Len(n.attrs) |-> n.attrs[i][1]]
getattr(n, attr) ==
    LET i == CHOOSE j \in 1..Len(n.attrs) : n.attrs[j][1] = attr IN n.attrs[i][2]
children(n) == n.children

\* n.<slot> for a child slot: the node held there, or None.
Child(n, slot) ==
    IF \E i \in 1..Len(n.children) : n.children[i][1] = slot
    THEN LET i == CHOOSE j \in 1..Len(n.children) : n.children[j][1] = slot
         IN  n.children[i][2]
    ELSE None

\* zip(a, b): pairs up to the end of the shorter sequence.
zip(a, b) == [i \in 1..Min(Len(a), Len(b)) |-> <<a[i], b[i]>>]

(***************************************************************************)
(* compare_ast_nodes (src/main.py 47-62).                                  *)
(***************************************************************************)
\* Mutant of AttrsDiffer: the coordinate is compared like an attribute.
AttrsOrCoordDiffer(n1, n2) ==
    \/ \E i \in 1..Len(attr_names(n1)) :
          getattr(n1, attr_names(n1)[i]) /= getattr(n2, attr_names(n1)[i])
    \/ n1.coord /= n2.coord

\* for attr in node1.attr_names: if getattr(node1, attr) != getattr(node2, attr)
AttrsDiffer(n1, n2) ==
    \E i \in 1..Len(attr_names(n1)) :
        getattr(n1, attr_names(n1)[i]) /= getattr(n2, attr_names(n1)[i])

RECURSIVE compare_ast_nodes(_, _)
compare_ast_nodes(n1, n2) ==
    IF n1.kind /= n2.kind THEN FALSE
    ELSE IF IsNode(n1) THEN
        IF attr_names(n1) /= attr_names(n2) THEN FALSE
        ELSE IF AttrsDiffer(n1, n2) THEN FALSE
        ELSE LET pairs == zip(children(n1), children(n2))
             IN  \A i \in 1..Len(pairs) :
                    /\ pairs[i][1][1] = pairs[i][2][1]
                    /\ compare_ast_nodes(pairs[i][1][2], pairs[i][2][2])
    ELSE n1 = n2

(***************************************************************************)
(* The trees the specifications draw their inputs from.  A statement is    *)
(* named by a tag; a tree is laid out from a first line, so that two       *)
(* layouts of one program differ in every coordinate and in nothing else.  *)
(***************************************************************************)
FirstLines == {1, 7}

MkStmt(tag, line) ==
    CASE tag = "g"  -> FuncCall(ID("g", line), None, line)                 \* g();
      [] tag = "h"  -> FuncCall(ID("h", line), None, line)                 \* h();
      [] tag = "gh" -> FuncCall(ID("g", line),                             \* g(h());
                           ExprList(<<FuncCall(ID("h", line), None, line)>>, line), line)
      [] tag = "ph" -> FuncCall(UnaryOp("*", ID("p", line), line),         \* (*p)(h());
                           ExprList(<<FuncCall(ID("h", line), None, line)>>, line), line)

MkBody(tags, line) ==
    Compound([i \in 1..Len(tags) |-> MkStmt(tags[i], line + i)], line)

MkFuncDef(name, tags, line) ==
    FuncDef(Decl(name, FuncDecl(line), None, None, line), MkBody(tags, line), line)

\* int x;   int x = 1;   int x : 1;
MkDecl(form, line) ==
    CASE form = "plain"    -> Decl("x", FuncDecl(line), None, None, line)
      [] form = "init"     -> Decl("x", FuncDecl(line), Constant("int", "1", line), None, line)
      [] form = "bitfield" -> Decl("x", FuncDecl(line), None, Constant("int", "1", line), line)

CmpStmts == {"g", "h", "gh"}
CmpNodes ==
    {MkBody(t, l) : t \in SeqsUpTo(CmpStmts, MaxStmts), l \in FirstLines}
    \cup {MkDecl(f, l) : f \in {"plain", "init", "bitfield"}, l \in FirstLines}
    \cup {None, Scalar("str", "g"), Scalar("str", "h")}

IdleCmp == node1 = Idle /\ node2 = Idle /\ cmp_result = Idle
IdleMod == original_ast = Idle /\ modified_ast = Idle /\ modified_functions = Idle
IdleCg == files = Idle /\ file_idx = Idle
IdleAnc ==
    /\ functions = Idle /\ affected = Idle /\ visited = Idle
    /\ stack = Idle /\ func = Idle /\ callers_left = Idle
IdleDiff ==
    /\ original_path = Idle /\ modified_path = Idle
    /\ new_files = Idle /\ deleted_files = Idle /\ changed_files = Idle
    /\ disk = Idle

InitCompare ==
    /\ pc = "compare"
    /\ node1 \in CmpNodes
    /\ node2 \in CmpNodes
    /\ cmp_result = Idle
    /\ IdleMod /\ IdleCg /\ call_graph = Idle /\ IdleAnc /\ IdleDiff

Compare ==
    /\ pc = "compare"
    /\ cmp_result' = compare_ast_nodes(node1, node2)
    /\ pc' = "compared"
    /\ UNCHANGED <<node1, node2, modVars, cgVars, call_graph, ancVars, diffVars>>

NextCompare == Compare

SpecCompare == InitCompare /\ [][NextCompare]_vars

(***************************************************************************)
(* c_ast.NodeVisitor: visit(node) calls visit_<class> when the visitor     *)
(* defines it and generic_visit otherwise; generic_visit visits the        *)
(* children in order.  A visit_<class> that does not call generic_visit    *)
(* ends the descent at that node.                                          *)
(***************************************************************************)
\* FuncBodyVisitor (src/main.py 65-70): the (name, body) pairs in the order
\* visit_FuncDef meets them.
RECURSIVE VisitFuncDefs(_)
VisitFuncDefs(n) ==
    IF n.kind = "FuncDef"
    THEN << <<getattr(Child(n, "decl"), "name"), Child(n, "body")>> >>
    ELSE Flatten([i \in 1..Len(children(n)) |-> VisitFuncDefs(children(n)[i][2])])

\* self.functions[name] = body, for each pair in turn: a dict, as its keys in
\* insertion order and the value each key holds last.
DictKeys(pairs) ==
    LET first == [i \in 1..Len(pairs) |->
                     IF \E j \in 1..(i - 1) : pairs[j][1] = pairs[i][1]
                     THEN << >> ELSE <<pairs[i][1]>>]
    IN  Flatten(first)

DictGet(pairs, key) ==
    IF \E i \in 1..Len(pairs) : pairs[i][1] = key
    THEN LET last == CHOOSE i \in 1..Len(pairs) :
                        /\ pairs[i][1] = key
                        /\ \A j \in (i + 1)..Len(pairs) : pairs[j][1] /= key
         IN  pairs[last][2]
    ELSE None

\* original_body is None or not compare_ast_nodes(original_body, modified_body)
IsModified(original_body, modified_body) ==
    \/ original_body = None
    \/ ~compare_ast_nodes(original_body, modified_body)

(***************************************************************************)
(* get_modified_functions (src/main.py 64-83).                             *)
(***************************************************************************)
get_modified_functions(orig_ast, mod_ast) ==
    LET original_visitor == VisitFuncDefs(orig_ast)
        modified_visitor == VisitFuncDefs(mod_ast)
        names == DictKeys(modified_visitor)
        hit == [i \in 1..Len(names) |->
                   IF IsModified(DictGet(original_visitor, names[i]),
                                 DictGet(modified_visitor, names[i]))
                   THEN <<names[i]>> ELSE << >>]
    IN  Flatten(hit)

Defined == {"f", "g"}
ModBodies == {<< >>, <<"g">>, <<"h">>, <<"g", "h">>}
ModItems == {<<"func", n, b>> : n \in Defined, b \in ModBodies} \cup {<<"decl", "x", << >>>>}

ExtItem(item, line) ==
    IF item[1] = "decl" THEN MkDecl("plain", line)
    ELSE MkFuncDef(item[2], item[3], line)

MkAST(items, line) == FileAST([i \in 1..Len(items) |-> ExtItem(items[i], line + i)])

InitModified ==
    /\ pc = "modified"
    /\ original_ast \in {MkAST(it, l) : it \in SeqsUpTo(ModItems, MaxExt), l \in FirstLines}
    /\ modified_ast \in {MkAST(it, l) : it \in SeqsUpTo(ModItems, MaxExt), l \in FirstLines}
    /\ modified_functions = Idle
    /\ IdleCmp /\ IdleCg /\ call_graph = Idle /\ IdleAnc /\ IdleDiff

GetModifiedFunctions ==
    /\ pc = "modified"
    /\ modified_functions' = get_modified_functions(original_ast, modified_ast)
    /\ pc' = "modified_done"
    /\ UNCHANGED <<original_ast, modified_ast, cmpVars, cgVars, call_graph, ancVars, diffVars>>

NextModified == GetModifiedFunctions

SpecModified == InitModified /\ [][NextModified]_vars

(***************************************************************************)
(* build_call_graph (src/main.py 85-107).                                  *)
(***************************************************************************)
\* FuncCallVisitor.visit_FuncCall (93-95): the callee of a call whose target
\* is an ID; generic_visit is not called, so the call's children go unvisited.
visit_FuncCall(node) ==
    IF Child(node, "name").kind = "ID"
    THEN <<getattr(Child(node, "name"), "name")>>
    ELSE << >>

\* visitor.visit(ext); visitor.calls
RECURSIVE VisitFuncCalls(_)
VisitFuncCalls(n) ==
    IF n.kind = "FuncCall" THEN visit_FuncCall(n)
    ELSE Flatten([i \in 1..Len(children(n)) |-> VisitFuncCalls(children(n)[i][2])])

\* A file pycparser cannot parse: parse_file raises on it.
Unparsable == Scalar("ParseError", "syntax error")
Parses(file) == file /= Unparsable

\* The empty dict.
EmptyDict == << >>

\* if current_function not in call_graph: call_graph[current_function] = []
Register(cg, current_function) ==
    [k \in DOMAIN cg \cup {current_function} |->
        IF k \in DOMAIN cg THEN cg[k] ELSE << >>]

\* Mutant of AddExt: a function is registered only once a call is found in it.
AddExtIfCalls(cg, ext) ==
    IF ext.kind = "FuncDef" /\ VisitFuncCalls(ext) /= << >>
    THEN LET current_function == getattr(Child(ext, "decl"), "name")
         IN  [Register(cg, current_function) EXCEPT ![current_function] = @ \o VisitFuncCalls(ext)]
    ELSE cg

\* The body of the loop over ast.ext (100-106).
AddExt(cg, ext) ==
    IF ext.kind = "FuncDef"
    THEN LET current_function == getattr(Child(ext, "decl"), "name")
         IN  [Register(cg, current_function) EXCEPT ![current_function] = @ \o VisitFuncCalls(ext)]
    ELSE cg

\* for ext in ast.ext, from the i-th on.
RECURSIVE AddExts(_, _, _)
AddExts(cg, ast, i) ==
    IF i > Len(children(ast)) THEN cg
    ELSE AddExts(AddExt(cg, children(ast)[i][2]), ast, i + 1)

BuildItems == {<<"func", "f", <<"g">>>>, <<"func", "g", << >>>>, <<"decl", "x", << >>>>}
BuildFiles == {Unparsable} \cup {MkAST(it, 1) : it \in SeqsUpTo(BuildItems, MaxExt)}

CallStmts == {"g", "h", "gh", "ph"}
CallItems == {<<"func", n, b>> : n \in Defined, b \in SeqsUpTo(CallStmts, MaxStmts)}

InitBuildWith(fileLists) ==
    /\ pc = "build"
    /\ files \in fileLists
    /\ file_idx = 1
    /\ call_graph = EmptyDict
    /\ IdleCmp /\ IdleMod /\ IdleAnc /\ IdleDiff

InitBuild == InitBuildWith(SeqsUpTo(BuildFiles, MaxFiles))

InitCalls == InitBuildWith({<<MkAST(it, 1)>> : it \in SeqsUpTo(CallItems, MaxExt)})

\* One turn of the loop over files (97-106) on a file that parses.
ProcessFile ==
    /\ pc = "build"
    /\ file_idx <= Len(files)
    /\ Parses(files[file_idx])
    /\ call_graph' = AddExts(call_graph, files[file_idx], 1)
    /\ file_idx' = file_idx + 1
    /\ UNCHANGED <<pc, files, cmpVars, modVars, ancVars, diffVars>>

\* parse_c_file raises (44, 98); nothing in build_call_graph catches it, so
\* the call ends with the exception and returns no graph.
ParseRaises ==
    /\ pc = "build"
    /\ file_idx <= Len(files)
    /\ ~Parses(files[file_idx])
    /\ pc' = "build_raised"
    /\ UNCHANGED <<files, file_idx, call_graph, cmpVars, modVars, ancVars, diffVars>>

\* return call_graph (107)
ReturnGraph ==
    /\ pc = "build"
    /\ file_idx > Len(files)
    /\ pc' = "build_done"
    /\ UNCHANGED <<files, file_idx, call_graph, cmpVars, modVars, ancVars, diffVars>>

NextBuild == ProcessFile \/ ParseRaises \/ ReturnGraph

SpecBuild == InitBuild /\ [][NextBuild]_vars

NextCalls == ProcessFile \/ ReturnGraph

SpecCalls == InitCalls /\ [][NextCalls]_vars

(***************************************************************************)
(* find_ancestors (src/main.py 109-122), one step of its loops per action. *)
(***************************************************************************)
AncNames == {"a", "b", "c"}

\* A call graph with one more callee entry.
AddEdge(cg, caller, callee) == [Register(cg, caller) EXCEPT ![caller] = Append(@, callee)]

\* The call graphs over AncNames with at most n callee entries.
RECURSIVE GraphsUpTo(_)
GraphsUpTo(n) ==
    IF n = 0 THEN {[k \in K |-> << >>] : K \in SUBSET AncNames}
    ELSE LET less == GraphsUpTo(n - 1)
         IN  less \cup {AddEdge(g, c, d) : g \in less, c \in AncNames, d \in AncNames}

\* The lists without repetition over S.
ListsOf(S) == {q \in SeqsUpTo(S, Cardinality(S)) : \A i, j \in 1..Len(q) : i /= j => q[i] /= q[j]}

\* Mutant of ShouldPush: the guard reads visited where the code reads affected.
ShouldPushUnlessVisited(cg, f, caller, aff, vis) ==
    f \in Range(cg[caller]) /\ caller \notin vis

\* Mutant of ShouldPush: the guard leaves out "caller not in affected".
ShouldPushAlways(cg, f, caller, aff, vis) ==
    f \in Range(cg[caller])

\* if func in callees and caller not in affected (119)
ShouldPush(cg, f, caller, aff, vis) ==
    f \in Range(cg[caller]) /\ caller \notin aff

InitAncestors ==
    /\ pc = "anc_loop"
    /\ call_graph \in GraphsUpTo(MaxEdges)
    /\ functions \in ListsOf(AncNames)
    /\ affected = {}
    /\ visited = {}
    /\ stack = functions
    /\ func = Idle
    /\ callers_left = {}
    /\ IdleCmp /\ IdleMod /\ IdleCg /\ IdleDiff

\* while stack: func = stack.pop(); if func not in visited: visited.add(func)
\* and the for loop over call_graph.items() starts (114-118).
AncPop ==
    /\ pc = "anc_loop"
    /\ stack /= << >>
    /\ func' = stack[Len(stack)]
    /\ stack' = SubSeq(stack, 1, Len(stack) - 1)
    /\ IF func' \notin visited
       THEN /\ visited' = visited \cup {func'}
            /\ callers_left' = DOMAIN call_graph
            /\ pc' = "anc_scan"
       ELSE UNCHANGED <<visited, callers_left, pc>>
    /\ UNCHANGED <<call_graph, functions, affected, cmpVars, modVars, cgVars, diffVars>>

\* One turn of the for loop (118-121); the dict's order is any order.
AncScan ==
    /\ pc = "anc_scan"
    /\ \E caller \in callers_left :
          /\ callers_left' = callers_left \ {caller}
          /\ IF ShouldPush(call_graph, func, caller, affected, visited)
             THEN /\ affected' = affected \cup {caller}
                  /\ stack' = Append(stack, caller)
             ELSE UNCHANGED <<affected, stack>>
    /\ UNCHANGED <<pc, call_graph, functions, visited, func, cmpVars, modVars, cgVars, diffVars>>

\* The for loop is over: back to the while test.
AncScanEnd ==
    /\ pc = "anc_scan"
    /\ callers_left = {}
    /\ pc' = "anc_loop"
    /\ UNCHANGED <<call_graph, functions, affected, visited, stack, func, callers_left,
                   cmpVars, modVars, cgVars, diffVars>>

\* The work list is empty: return affected (122).
AncReturn ==
    /\ pc = "anc_loop"
    /\ stack = << >>
    /\ pc' = "anc_done"
    /\ UNCHANGED <<call_graph, functions, affected, visited, stack, func, callers_left,
                   cmpVars, modVars, cgVars, diffVars>>

NextAncestors == AncPop \/ AncScan \/ AncScanEnd \/ AncReturn

SpecAncestors == InitAncestors /\ [][NextAncestors]_vars

\* The interpreter runs the call to its end: a step that can be taken is taken.
FairAncestors == SpecAncestors /\ WF_vars(NextAncestors)

(***************************************************************************)
(* get_changed_files (src/main.py 16-41).  A path is its sequence of       *)
(* components; a root is a directory holding regular files at relative     *)
(* paths, or is missing, or is a regular file itself.                      *)
(***************************************************************************)
OrigRoot == <<"o">>
ModRoot == <<"w", "m">>

\* a.c, d/a.c, d/d/a.c, ...
RelPaths == {[i \in 1..k |-> IF i = k THEN "a.c" ELSE "d"] : k \in 1..MaxDepth}

\* A regular file: its bytes, and whether this process may open it.
FileStates ==
    {[data |-> d, readable |-> TRUE] : d \in {<<1>>, <<2>>, <<1, 1>>}}
    \cup {[data |-> <<1>>, readable |-> FALSE]}

Trees == UNION {[P -> FileStates] : P \in SUBSET RelPaths}
RootStates ==
    {[status |-> "dir", tree |-> t] : t \in Trees}
    \cup {[status |-> "missing", tree |-> << >>], [status |-> "file", tree |-> << >>]}

\* os.path.join(root, f) for every file os.walk(top) yields: os.walk ignores the
\* error of listing a top that is missing or no directory and yields nothing.
WalkFiles(top) ==
    IF disk[top].status = "dir" THEN {top \o rel : rel \in DOMAIN disk[top].tree} ELSE {}

\* os.path.relpath(path, start), for a path below start.
relpath(path, start) == SubSeq(path, Len(start) + 1, Len(path))

\* The loops of 21-29.
RelativeFiles(top) == {relpath(p, top) : p \in WalkFiles(top)}

\* filecmp.cmp(f1, f2, shallow=False) on two regular files: sizes that differ
\* answer False at once; else both files are read, which raises on a file the
\* process may not open.
FileCmp(f1, f2) ==
    IF Len(f1.data) /= Len(f2.data) THEN "False"
    ELSE IF ~f1.readable \/ ~f2.readable THEN "raise"
    ELSE IF f1.data = f2.data THEN "True" ELSE "False"

CmpAt(f) == FileCmp(disk[original_path].tree[f], disk[modified_path].tree[f])

\* Mutant of NewFiles: the set difference is left out.
NewFilesAll(original_files, modified_files) == modified_files

\* new_files = modified_files - original_files (32)
NewFiles(original_files, modified_files) == modified_files \ original_files

\* deleted_files = original_files - modified_files (35)
DeletedFiles(original_files, modified_files) == original_files \ modified_files

\* common_files = original_files & modified_files (38)
CommonFiles(original_files, modified_files) == original_files \cap modified_files

InitDiff ==
    /\ pc = "diff"
    /\ original_path = OrigRoot
    /\ modified_path = ModRoot
    /\ disk \in [{OrigRoot, ModRoot} -> RootStates]
    /\ new_files = Idle /\ deleted_files = Idle /\ changed_files = Idle
    /\ IdleCmp /\ IdleMod /\ IdleCg /\ call_graph = Idle /\ IdleAnc

\* The call returns its three lists (41).
DiffReturns ==
    /\ pc = "diff"
    /\ LET original_files == RelativeFiles(original_path)
           modified_files == RelativeFiles(modified_path)
           common_files == CommonFiles(original_files, modified_files)
       IN  /\ \A f \in common_files : CmpAt(f) /= "raise"
           /\ new_files' = NewFiles(original_files, modified_files)
           /\ deleted_files' = DeletedFiles(original_files, modified_files)
           /\ changed_files' = {f \in common_files : CmpAt(f) = "False"}
    /\ pc' = "diff_done"
    /\ UNCHANGED <<original_path, modified_path, disk, cmpVars, modVars, cgVars,
                   call_graph, ancVars>>

\* filecmp.cmp raises on a common file (39): the call ends with the exception.
DiffRaises ==
    /\ pc = "diff"
    /\ \E f \in CommonFiles(RelativeFiles(original_path), RelativeFiles(modified_path)) :
          CmpAt(f) = "raise"
    /\ pc' = "diff_raised"
    /\ UNCHANGED <<original_path, modified_path, new_files, deleted_files, changed_files,
                   disk, cmpVars, modVars, cgVars, call_graph, ancVars>>

NextDiff == DiffReturns \/ DiffRaises

SpecDiff == InitDiff /\ [][NextDiff]_vars

(***************************************************************************)
(* The properties.                                                         *)
(***************************************************************************)
\* The tree with every coordinate erased.
RECURSIVE StripCoord(_)
StripCoord(n) ==
    [n EXCEPT !.coord = 0,
              !.children = [i \in 1..Len(n.children) |->
                               <<n.children[i][1], StripCoord(n.children[i][2])>>]]

\* The child-slot names of the two nodes differ at a position both have.
SlotMismatch(n1, n2) ==
    \E i \in 1..Min(Len(children(n1)), Len(children(n2))) :
        children(n1)[i][1] /= children(n2)[i][1]

\* C2 (as claimed): two nodes of one kind with child sequences of different
\* lengths, or with different slot names at some position, compare unequal.
C2_Claim ==
    (/\ pc = "compared"
     /\ IsNode(node1) /\ node1.kind = node2.kind
     /\ \/ Len(children(node1)) /= Len(children(node2))
        \/ SlotMismatch(node1, node2))
    => cmp_result = FALSE

\* C9: a tree is equivalent to itself, and to any tree that differs from it
\* in coordinates only.
C9_ReflexiveCoordBlind ==
    (pc = "compared" /\ StripCoord(node1) = StripCoord(node2)) => cmp_result = TRUE

C9_Witness ==
    /\ pc = "compared"
    /\ node1 /= node2
    /\ StripCoord(node1) = StripCoord(node2)
    /\ Len(children(node1)) = MaxStmts
    /\ cmp_result = TRUE

\* Tree equivalence as the design states it (4.2): kinds, attribute names and
\* values agree, the two nodes have as many children, and the children agree
\* slot by slot; scalars are equal values; coordinates play no part.
RECURSIVE Equivalent(_, _)
Equivalent(a, b) ==
    IF a.kind /= b.kind THEN FALSE
    ELSE IF ~IsNode(a) THEN a = b
    ELSE /\ a.attrs = b.attrs
         /\ Len(children(a)) = Len(children(b))
         /\ \A i \in 1..Len(children(a)) :
               /\ children(a)[i][1] = children(b)[i][1]
               /\ Equivalent(children(a)[i][2], children(b)[i][2])

\* The function inventory of a translation unit (4.3): the names defined.
Inventory(ast) == Range(DictKeys(VisitFuncDefs(ast)))
BodyOf(ast, name) == DictGet(VisitFuncDefs(ast), name)

\* C4 (as claimed): the names reported are those only the modified inventory
\* has, and those in both whose bodies are not equivalent under 4.2.
C4_Claim ==
    pc = "modified_done" =>
        Range(modified_functions) =
            {n \in Inventory(modified_ast) :
                \/ n \notin Inventory(original_ast)
                \/ ~Equivalent(BodyOf(original_ast, n), BodyOf(modified_ast, n))}

\* The top-level function definitions of the parsable files among the first
\* n files, in order.
TopLevelDefs(n) ==
    Flatten([i \in 1..n |->
        IF Parses(files[i])
        THEN Flatten([j \in 1..Len(children(files[i])) |->
                 IF children(files[i])[j][2].kind = "FuncDef"
                 THEN <<children(files[i])[j][2]>> ELSE << >>])
        ELSE << >>])

DefName(def) == getattr(Child(def, "decl"), "name")

\* Every call expression with an ID target below n, in pre-order: a call is
\* listed before the calls inside its target and arguments.
RECURSIVE AllCalls(_)
AllCalls(n) ==
    (IF n.kind = "FuncCall" /\ Child(n, "name").kind = "ID"
     THEN <<getattr(Child(n, "name"), "name")>> ELSE << >>)
    \o Flatten([i \in 1..Len(children(n)) |-> AllCalls(children(n)[i][2])])

\* C3 (as claimed): the callee sequence of a function lists every call
\* expression of its bodies that targets an identifier, nested ones included,
\* in pre-order and with duplicates.
C3_Claim ==
    pc = "build_done" =>
        \A name \in {DefName(TopLevelDefs(Len(files))[i]) : i \in 1..Len(TopLevelDefs(Len(files)))} :
            call_graph[name] =
                Flatten([i \in 1..Len(TopLevelDefs(Len(files))) |->
                    IF DefName(TopLevelDefs(Len(files))[i]) = name
                    THEN AllCalls(Child(TopLevelDefs(Len(files))[i], "body"))
                    ELSE << >>])

\* C7 (as claimed): a file that fails to parse does not stop the builder: the
\* call returns a graph holding the entries of every file that parses.
C7_Claim ==
    (pc = "build_raised" \/ pc = "build_done") =>
        /\ pc = "build_done"
        /\ \A i \in 1..Len(TopLevelDefs(Len(files))) :
              LET def == TopLevelDefs(Len(files))[i] IN
              /\ DefName(def) \in DOMAIN call_graph
              /\ Range(VisitFuncCalls(def)) \subseteq Range(call_graph[DefName(def)])

\* C10: the keys of the call graph are the names defined at top level in the
\* files processed so far, so on return those of all the files; a function
\* without calls holds the empty sequence; a name that is only called is no key.
C10_KeysAreDefined ==
    pc \in {"build", "build_raised", "build_done"} =>
        LET defs == TopLevelDefs(file_idx - 1)
            names == {DefName(defs[i]) : i \in 1..Len(defs)}
        IN  /\ DOMAIN call_graph = names
            /\ pc = "build_done" => file_idx - 1 = Len(files)
            /\ \A n \in names :
                  (\A i \in 1..Len(defs) :
                      DefName(defs[i]) = n => AllCalls(defs[i]) = << >>)
                  => call_graph[n] = << >>

C10_Witness ==
    /\ pc = "build_done"
    /\ Len(files) = MaxFiles
    /\ \A i \in 1..Len(files) :
          \E j \in 1..Len(children(files[i])) :
              /\ children(files[i])[j][2].kind = "FuncDef"
              /\ DefName(children(files[i])[j][2]) = "f"
    /\ DOMAIN call_graph = {"f"}
    /\ Len(call_graph["f"]) >= MaxFiles
    /\ "g" \in Range(call_graph["f"])

\* A path of n >= 1 call edges leads from f to a seed.
CallsSeed(f) ==
    \E n \in 1..Cardinality(AncNames) :
        \E p \in [1..(n + 1) -> AncNames] :
            /\ p[1] = f
            /\ p[n + 1] \in Range(functions)
            /\ \A i \in 1..n : p[i] \in DOMAIN call_graph /\ p[i + 1] \in Range(call_graph[p[i]])

\* C1: the set returned holds exactly the functions from which a path of one
\* or more call edges leads to a seed.
C1_ExactlyAncestors ==
    pc = "anc_done" => affected = {f \in AncNames : CallsSeed(f)}

\* A seed in the result through a cycle, a function reached along two paths,
\* and a seed the graph does not mention.
C1_Witness ==
    /\ pc = "anc_done"
    /\ Range(functions) = {"a", "c"}
    /\ "c" \notin DOMAIN call_graph
    /\ \A k \in DOMAIN call_graph : "c" \notin Range(call_graph[k])
    /\ affected = {"a", "b"}
    /\ Len(call_graph["b"]) = 2

Count(q, x) == Cardinality({i \in 1..Len(q) : q[i] = x})

\* C5: the call ends, and on the way a function enters affected, and is pushed
\* as a discovered caller, only when it was not in affected before.
C5_TerminatesPushOnce ==
    /\ <>(pc = "anc_done")
    /\ [][/\ affected \subseteq affected'
          /\ \A f \in AncNames :
                (Count(stack', f) > Count(stack, f))
                    => (f \notin affected /\ f \in affected' /\ Count(stack', f) = Count(stack, f) + 1)
          /\ \A f \in affected' \ affected : Count(stack', f) = Count(stack, f) + 1]_vars

C5_Witness ==
    /\ pc = "anc_done"
    /\ "a" \in Range(functions)
    /\ {"a", "b"} \subseteq DOMAIN call_graph
    /\ "a" \in Range(call_graph["a"])
    /\ "a" \in Range(call_graph["b"])
    /\ "b" \in Range(call_graph["a"])
    /\ affected = {"a", "b"}

\* The relative paths of the regular files below a root.
PathsUnder(top) == IF disk[top].status = "dir" THEN DOMAIN disk[top].tree ELSE {}

\* C6: the three sets returned are pairwise disjoint: added and removed are
\* the two set differences of the roots' paths, modified lies within the
\* paths both roots hold.
C6_Disjoint ==
    pc = "diff_done" =>
        /\ new_files = PathsUnder(modified_path) \ PathsUnder(original_path)
        /\ deleted_files = PathsUnder(original_path) \ PathsUnder(modified_path)
        /\ changed_files \subseteq PathsUnder(original_path) \cap PathsUnder(modified_path)
        /\ new_files \cap deleted_files = {}
        /\ new_files \cap changed_files = {}
        /\ deleted_files \cap changed_files = {}

C6_Witness ==
    /\ pc = "diff_done"
    /\ new_files /= {} /\ deleted_files /= {} /\ changed_files /= {}

\* C8 (as claimed): with a root that is missing or no directory the call
\* does not return a change set.
C8_Claim ==
    pc = "diff_done" => \A top \in {original_path, modified_path} : disk[top].status = "dir"
====
